---- MODULE Spec2Model ----
(***************************************************************************)
(* Model of the leveled logger (package logger, src/logger.go:1-366, the   *)
(* current revision; the earlier revision that still has LogLevelNone,     *)
(* src/unnamed/part_000:273-528, is modelled separately further down).     *)
(*                                                                         *)
(* Strings are sequences of one-character strings, so len() is Len().      *)
(***************************************************************************)
EXTENDS Integers, Sequences, FiniteSets, TLC

(* ------------------------------ bounds --------------------------------- *)
\* number of goroutines that call into the one Logger
NumProcs == 2
\* calls a sequential caller makes in one run
MaxCalls == 3
\* calls the concurrent goroutines make in one run, all together
MaxConc == 2
\* calls made in a run that checks the threshold: SetLevel, then one method
MaxGate == 2
\* calls made in a run that checks what one call writes
MaxApply == 1
\* longest argument string drawn for the pure-function specifications
MaxLen == 4

(* --------------------------- LogLevel ---------------------------------- *)
LogLevelFatal == -16
LogLevelError == -8
LogLevelWarn == -4
LogLevelInfo == 0
LogLevelVerbose == 4
LogLevelDebug == 8
LogLevelTrace == 16

StrDebug == <<"D", "e", "b", "u", "g">>
StrError == <<"E", "r", "r", "o", "r">>
StrFatal == <<"F", "a", "t", "a", "l">>
StrInfo == <<"I", "n", "f", "o">>
StrTrace == <<"T", "r", "a", "c", "e">>
StrVerbose == <<"V", "e", "r", "b", "o", "s", "e">>
StrWarn == <<"W", "a", "r", "n">>
StrUnknown == <<"U", "n", "k", "n", "o", "w", "n">>

\* func (l LogLevel) String() string
String(l) ==
    CASE l = LogLevelDebug -> StrDebug
      [] l = LogLevelError -> StrError
      [] l = LogLevelFatal -> StrFatal
      [] l = LogLevelInfo -> StrInfo
      [] l = LogLevelTrace -> StrTrace
      [] l = LogLevelVerbose -> StrVerbose
      [] l = LogLevelWarn -> StrWarn
      [] OTHER -> StrUnknown

(* ----------------------- strings and fmt ------------------------------- *)
NL == "\n"
SP == " "

\* strings.Repeat(" ", n)
Spaces(n) == [i \in 1..n |-> SP]

\* strings.TrimRight(s, " ")
RECURSIVE TrimRight(_)
TrimRight(s) ==
    IF Len(s) > 0 /\ s[Len(s)] = SP THEN TrimRight(SubSeq(s, 1, Len(s) - 1)) ELSE s

\* strings.Split(s, "\n"): the pieces between newlines, Split("") = <<"">>
RECURSIVE SplitFrom(_, _, _)
SplitFrom(s, i, cur) ==
    IF i > Len(s) THEN <<cur>>
    ELSE IF s[i] = NL THEN <<cur>> \o SplitFrom(s, i + 1, <<>>)
    ELSE SplitFrom(s, i + 1, Append(cur, s[i]))

Split(s) == SplitFrom(s, 1, <<>>)

FmtMissing == <<"%", "!", "s", "(", "M", "I", "S", "S", "I", "N", "G", ")">>
FmtNoVerb == <<"%", "!", "(", "N", "O", "V", "E", "R", "B", ")">>
FmtExtra == <<"%", "!", "(", "E", "X", "T", "R", "A", " ", "s", "t", "r", "i", "n", "g", "=">>

\* the "%!(EXTRA string=a, string=b)" tail fmt appends for unused operands
RECURSIVE ExtraArgs(_, _)
ExtraArgs(a, k) ==
    IF k > Len(a) THEN <<")">>
    ELSE a[k] \o (IF k < Len(a)
                    THEN <<",", " ", "s", "t", "r", "i", "n", "g", "=">> \o ExtraArgs(a, k + 1)
                    ELSE ExtraArgs(a, k + 1))

\* fmt.Sprintf(format, a...) for string operands and the verbs %s and %%
RECURSIVE SprintfFrom(_, _, _, _)
SprintfFrom(format, i, a, k) ==
    IF i > Len(format)
      THEN (IF k <= Len(a) THEN FmtExtra \o ExtraArgs(a, k) ELSE <<>>)
    ELSE IF format[i] # "%"
      THEN <<format[i]>> \o SprintfFrom(format, i + 1, a, k)
    ELSE IF i = Len(format)
      THEN FmtNoVerb \o SprintfFrom(format, i + 1, a, k)
    ELSE IF format[i + 1] = "%"
      THEN <<"%">> \o SprintfFrom(format, i + 2, a, k)
    ELSE IF k <= Len(a)
      THEN a[k] \o SprintfFrom(format, i + 2, a, k + 1)
    ELSE FmtMissing \o SprintfFrom(format, i + 2, a, k)

Sprintf(format, a) == SprintfFrom(format, 1, a, 1)

(* --------------------------- buildMessage ------------------------------ *)
\* time.Now().Format(LogDateFormat): the clock readings a run can see; the
\* zone abbreviation makes the length vary
TimeUTC == <<"2", "0", "2", "6", "-", "1", "1", "-", "0", "1", " ", "0", "9", ":", "0", "5", ":", "0", "0", ".", "0", "0", "0", " ", "U", "T", "C">>
TimeCEST == <<"2", "0", "2", "6", "-", "1", "1", "-", "0", "1", " ", "0", "9", ":", "0", "5", ":", "0", "0", ".", "0", "0", "0", " ", "C", "E", "S", "T">>
Timestamps == {TimeUTC, TimeCEST}

\* prefix := fmt.Sprintf(time.Now().Format(LogDateFormat)) + " " + l.String()[0:1] + " "
Prefix(l, ts) == Sprintf(ts, <<>>) \o <<SP>> \o SubSeq(String(l), 1, 1) \o <<SP>>

\* an inner loop without the test for empty lines
EmitLineKeepEmpty(message, prefix, ix, line) ==
    IF ix = 0
      THEN message \o prefix \o line \o <<NL>>
      ELSE message \o Spaces(Len(prefix)) \o line \o <<NL>>

\* one pass of the inner loop: for ix, line := range lines
EmitLine(message, prefix, ix, line) ==
    IF line # <<>>
      THEN IF ix = 0
             THEN message \o prefix \o line \o <<NL>>
             ELSE message \o Spaces(Len(prefix)) \o line \o <<NL>>
      ELSE message

RECURSIVE LinesLoop(_, _, _, _)
LinesLoop(message, prefix, lines, ix) ==
    IF ix >= Len(lines) THEN message
    ELSE LinesLoop(EmitLine(message, prefix, ix, lines[ix + 1]), prefix, lines, ix + 1)

\* the outer loop: for _, v := range a, with lines := strings.Split(v, "\n")
RECURSIVE ArgsLoop(_, _, _, _)
ArgsLoop(message, prefix, a, k) ==
    IF k > Len(a) THEN message
    ELSE CHOOSE r \in {ArgsLoop(LinesLoop(message, prefix, lines, 0), prefix, a, k + 1) :
                          lines \in {Split(a[k])}} : TRUE

\* func buildMessage(l LogLevel, a ...any) string, with the clock reading ts:
\* prefix is set once, built is message after the loops, and the result is
\* built without its trailing spaces
buildMessage(l, a, ts) ==
    CHOOSE message \in
        {TrimRight(built) :
           built \in {ArgsLoop(<<>>, prefix, a, 1) : prefix \in {Prefix(l, ts)}}} : TRUE

(* ------------------------------ Logger --------------------------------- *)
Procs == 1..NumProcs

\* *os.File values: the nil pointer and three open files
NIL == "nil"
Stderr == "stderr"
Stdout == "stdout"
TempFile == "tmp"
Files == {Stderr, Stdout, TempFile}

\* func (f *File) Name() string, for a non-nil f
Name(f) ==
    CASE f = Stderr -> <<"/", "d", "e", "v", "/", "s", "t", "d", "e", "r", "r">>
      [] f = Stdout -> <<"/", "d", "e", "v", "/", "s", "t", "d", "o", "u", "t">>
      [] OTHER -> <<"/", "t", "m", "p", "/", "t", "e", "s", "t", "l", "o", "g", "1">>

VARIABLES
    Level,      \* Logger.Level, the threshold
    Output,     \* Logger.Output, the sink handle
    m,          \* *Logger.m: 0 when unlocked, else the goroutine holding it
    content,    \* the bytes each file has received
    clock,      \* what time.Now().Format(LogDateFormat) returns
    pc,         \* where each goroutine is in its call
    fr,         \* the arguments and locals of each goroutine's call
    status,     \* "running", "panicked" or "exited"
    exitCode,   \* the exit status once the process has stopped
    calls,      \* top-level calls started so far
    limit,      \* how many top-level calls the run makes
    ctor,       \* how the Logger was constructed
    hist        \* the top-level calls that are over, in the order they ended

vars == <<Level, Output, m, content, clock, pc, fr, status, exitCode, calls, limit, ctor, hist>>

\* func New() *Logger; addr is the pointer returned, 0 would be nil
New == [addr |-> 1, Level |-> LogLevelInfo, Output |-> Stderr]

\* a NewWithOptions that forgets the default sink
OptOutputAsGiven(opts) == opts.Output

\* the two defaulting steps of NewWithOptions
OptLevel(opts) == IF opts.Level = 0 THEN LogLevelInfo ELSE opts.Level

OptOutput(opts) == IF opts.Output = NIL THEN Stderr ELSE opts.Output

\* func NewWithOptions(opts Options) *Logger
NewWithOptions(opts) == [addr |-> 1, Level |-> OptLevel(opts), Output |-> OptOutput(opts)]

\* the per-level methods: their level, whether they are gated, and their form
PlainOps == {"Trace", "Debug", "Verbose", "Info", "Warn", "Error", "Fatal"}
FormatOps == {"Tracef", "Debugf", "Verbosef", "Infof", "Warnf", "Errorf", "Fatalf"}
LogOps == PlainOps \cup FormatOps
Setters == {"SetLevel", "SetOutput"}

MethodLevel(op) ==
    CASE op \in {"Trace", "Tracef"} -> LogLevelTrace
      [] op \in {"Debug", "Debugf"} -> LogLevelDebug
      [] op \in {"Verbose", "Verbosef"} -> LogLevelVerbose
      [] op \in {"Info", "Infof"} -> LogLevelInfo
      [] op \in {"Warn", "Warnf"} -> LogLevelWarn
      [] op \in {"Error", "Errorf"} -> LogLevelError
      [] OTHER -> LogLevelFatal

\* Fatal and Fatalf have no "if writer.Level >= ..." around their body
Gated(op) == op \notin {"Fatal", "Fatalf"}

\* the condition of the if statement in each gated method
Enabled(level, op) == level >= MethodLevel(op)

\* f-methods that format the prefix and the body in one Sprintf and skip
\* buildMessage
MethodMessageUnsplit(op, format, a, ts) ==
    IF op \in FormatOps
      THEN Sprintf(Prefix(MethodLevel(op), ts) \o format, a)
      ELSE buildMessage(MethodLevel(op), a, ts)

\* the message a per-level method hands to Write; an f-method first sets
\* msg := fmt.Sprintf(format, a...) and builds the message from msg
MethodMessage(op, format, a, ts) ==
    IF op \in FormatOps
      THEN CHOOSE message \in {buildMessage(MethodLevel(op), <<msg>>, ts) :
                                 msg \in {Sprintf(format, a)}} : TRUE
      ELSE buildMessage(MethodLevel(op), a, ts)

\* a normalization that appends a newline without looking
NormalizeAlways(bytes) == Append(bytes, NL)

\* if bytes[len(bytes)-1] != '\n' { bytes = append(bytes, '\n') }
Normalize(bytes) == IF bytes[Len(bytes)] # NL THEN Append(bytes, NL) ELSE bytes

\* a SetOutput that always falls back to the default sink
ResolveOutputDefault(file) == Stderr

\* the branch of SetOutput that picks the new sink
ResolveOutput(file) == IF file = NIL THEN Stderr ELSE file

\* a Lock that does not wait for the holder
CanLockNoWait(p) == TRUE

\* m.Lock() returns only when nobody holds the mutex
CanLock(p) == m = 0

\* an Unlock that leaves the mutex with its holder
StillLocked(p) == m

\* the mutex after writer.m.Unlock(), called directly or as the deferred call
Unlocked(p) == 0

\* a caller that drops the error Write returns
FailedIgnored(f) == FALSE

\* if err != nil, in the per-level method that called Write
Failed(f) == f.err /\ f.meth # "Write"

\* a Write that ignores the configured sink
SinkStderr(f) == Stderr

\* the file Write sends the bytes to: the Output of its receiver copy
SinkOf(f) == f.wOutput

FormatSetLevel == <<"l", "o", "g", " ", "l", "e", "v", "e", "l", " ", "s", "e", "t", " ", "t", "o", " ", "%", "s", "\n">>
FormatSetOutput == <<"o", "u", "t", "p", "u", "t", " ", "s", "e", "t", " ", "t", "o", " ", "%", "s", "\n">>

\* a call a goroutine can make: the method and its arguments
Call(op, format, a, level, file) ==
    [op |-> op, format |-> format, args |-> a, level |-> level, file |-> file]

Plain(op, a) == Call(op, <<>>, a, 0, NIL)
Formatted(op, format, a) == Call(op, format, a, 0, NIL)
RawWrite(bytes) == Call("Write", <<>>, <<bytes>>, 0, NIL)
SetLevelCall(level) == Call("SetLevel", <<>>, <<>>, level, NIL)
SetOutputCall(file) == Call("SetOutput", <<>>, <<>>, 0, file)

IdleFrame ==
    [id |-> 0, op |-> "none", meth |-> "none", format |-> <<>>, args |-> <<>>,
     level |-> 0, file |-> NIL, tocopy |-> {}, wLevel |-> 0, wOutput |-> NIL,
     message |-> <<>>, bytes |-> <<>>, rem |-> <<>>, n |-> 0, err |-> FALSE,
     T0 |-> 0, O0 |-> NIL, L0 |-> 0, F0 |-> NIL, passed |-> FALSE, sunk |-> FALSE, res |-> "none"]

\* the state after construction, for the constructor calls in ctors and the
\* clock readings in clocks
InitWith(ctors, clocks, max) ==
    /\ ctor \in ctors
    /\ limit = max
    /\ Level = ctor.logr.Level
    /\ Output = ctor.logr.Output
    /\ m = 0
    /\ content = [f \in Files |-> <<>>]
    /\ clock \in clocks
    /\ pc = [p \in Procs |-> "idle"]
    /\ fr = [p \in Procs |-> IdleFrame]
    /\ status = "running"
    /\ exitCode = 0
    /\ calls = 0
    /\ hist = <<>>

CtorNew == [fn |-> "New", opts |-> [Level |-> 0, Output |-> NIL], logr |-> New]
CtorWithOptions(opts) == [fn |-> "NewWithOptions", opts |-> opts, logr |-> NewWithOptions(opts)]

\* an uncaught panic: the runtime stops the whole process with status 2
Panic(p, f) ==
    /\ status' = "panicked"
    /\ exitCode' = 2
    /\ fr' = [fr EXCEPT ![p] = [f EXCEPT !.res = "panicked"]]

\* goroutines that are not in a call are interchangeable: the next call is
\* made by the lowest-numbered one of them
InOrder(p) == \A q \in 1..(p - 1) : pc[q] # "idle"

\* a goroutine calls c on the shared *Logger
Begin(p, c) ==
    /\ status = "running"
    /\ pc[p] = "idle"
    /\ InOrder(p)
    /\ calls < limit
    /\ calls' = calls + 1
    /\ fr' = [fr EXCEPT ![p] =
                [IdleFrame EXCEPT !.id = calls + 1, !.op = c.op, !.meth = c.op,
                                  !.format = c.format, !.args = c.args,
                                  !.level = c.level, !.file = c.file,
                                  !.tocopy = IF c.op \in Setters THEN {} ELSE {"Level", "Output"},
                                  !.T0 = Level, !.O0 = Output, !.L0 = Level, !.F0 = Output]]
    /\ pc' = [pc EXCEPT ![p] = IF c.op \in Setters THEN "slock" ELSE "copy"]
    /\ UNCHANGED <<Level, Output, m, content, clock, status, exitCode, limit, ctor, hist>>

\* Output is an exported field: a caller clears it with logr.Output = nil
ClearOutput(p) ==
    /\ status = "running"
    /\ pc[p] = "idle"
    /\ InOrder(p)
    /\ calls < limit
    /\ Output # NIL
    /\ calls' = calls + 1
    /\ Output' = NIL
    /\ UNCHANGED <<Level, m, content, clock, pc, fr, status, exitCode, limit, ctor, hist>>

\* the value receiver: the method works on a copy of *Logger, read field
\* by field without the lock
CopyField(p) ==
    /\ status = "running"
    /\ pc[p] = "copy"
    /\ \E fld \in fr[p].tocopy :
         LET f1 == [fr[p] EXCEPT !.tocopy = @ \ {fld},
                                 !.wLevel = IF fld = "Level" THEN Level ELSE @,
                                 !.wOutput = IF fld = "Output" THEN Output ELSE @]
         IN /\ fr' = [fr EXCEPT ![p] = f1]
            /\ pc' = [pc EXCEPT ![p] =
                        IF f1.tocopy # {} THEN "copy"
                        ELSE IF f1.meth = "Write" THEN "lock" ELSE "gate"]
    /\ UNCHANGED <<Level, Output, m, content, clock, status, exitCode, calls, limit, ctor, hist>>

\* what hist keeps of a call: its arguments and what it handed to a sink
HistEntry(f) ==
    [id |-> f.id, op |-> f.op, meth |-> f.meth, level |-> f.level, file |-> f.file,
     wrote |-> f.sunk, bytes |-> f.bytes]

\* a per-level method up to its call of Write: it returns at once when its
\* if statement is false, and builds its message otherwise
GateBody(p, enabled, message) ==
    /\ status = "running"
    /\ pc[p] = "gate"
    /\ IF ~enabled
         THEN /\ fr' = [fr EXCEPT ![p].res = "returned"]
              /\ pc' = [pc EXCEPT ![p] = "idle"]
              /\ hist' = Append(hist, HistEntry(fr[p]))
         ELSE /\ fr' = [fr EXCEPT ![p].passed = TRUE, ![p].message = message]
              /\ pc' = [pc EXCEPT ![p] = "lock"]
              /\ UNCHANGED hist
    /\ UNCHANGED <<Level, Output, m, content, clock, status, exitCode, calls, limit, ctor>>

\* the body of a per-level method up to its call of Write
Gate(p) ==
    /\ pc[p] = "gate"
    /\ GateBody(p, ~Gated(fr[p].meth) \/ Enabled(fr[p].wLevel, fr[p].meth),
                MethodMessage(fr[p].meth, fr[p].format, fr[p].args, clock))

\* Write: the nil check, then writer.m.Lock()
Lock(p) ==
    /\ status = "running"
    /\ pc[p] = "lock"
    /\ LET f0 == IF fr[p].meth = "Write" THEN [fr[p] EXCEPT !.message = fr[p].args[1]] ELSE fr[p]
       IN IF f0.wOutput = NIL
            THEN /\ Panic(p, f0)
                 /\ UNCHANGED <<m, pc>>
            ELSE /\ CanLock(p)
                 /\ m' = p
                 /\ fr' = [fr EXCEPT ![p] = f0]
                 /\ pc' = [pc EXCEPT ![p] = "norm"]
                 /\ UNCHANGED <<status, exitCode>>
    /\ UNCHANGED <<Level, Output, content, clock, calls, limit, ctor, hist>>

\* Write: the trailing-newline step; bytes[len(bytes)-1] panics on an empty
\* slice, and the deferred Unlock runs while the panic unwinds
Norm(p) ==
    /\ status = "running"
    /\ pc[p] = "norm"
    /\ IF Len(fr[p].message) = 0
         THEN /\ Panic(p, fr[p])
              /\ m' = Unlocked(p)
              /\ UNCHANGED pc
         ELSE /\ fr' = [fr EXCEPT ![p].bytes = Normalize(fr[p].message),
                                  ![p].rem = Normalize(fr[p].message)]
              /\ pc' = [pc EXCEPT ![p] = "sink"]
              /\ UNCHANGED <<m, status, exitCode>>
    /\ UNCHANGED <<Level, Output, content, clock, calls, limit, ctor, hist>>

\* writer.Output.Write(bytes) hands the bytes to the file in one piece or,
\* after a short write, in two
ChunkSizes(f) == {Len(f.rem)} \cup (IF f.n = 0 /\ Len(f.rem) > 1 THEN {1} ELSE {})

SinkWrite(p) ==
    /\ status = "running"
    /\ pc[p] = "sink"
    /\ \E k \in ChunkSizes(fr[p]) :
         /\ content' = [content EXCEPT ![SinkOf(fr[p])] = @ \o SubSeq(fr[p].rem, 1, k)]
         /\ fr' = [fr EXCEPT ![p].rem = SubSeq(@, k + 1, Len(@)), ![p].n = @ + k,
                             ![p].sunk = (k = Len(fr[p].rem))]
         /\ pc' = [pc EXCEPT ![p] = IF k = Len(fr[p].rem) THEN "unlock" ELSE "sink"]
    /\ UNCHANGED <<Level, Output, m, clock, status, exitCode, calls, limit, ctor, hist>>

\* writer.Output.Write(bytes) returns an error (closed file, full disk)
SinkFail(p) ==
    /\ status = "running"
    /\ pc[p] = "sink"
    /\ fr' = [fr EXCEPT ![p].err = TRUE]
    /\ pc' = [pc EXCEPT ![p] = "unlock"]
    /\ UNCHANGED <<Level, Output, m, content, clock, status, exitCode, calls, limit, ctor, hist>>

\* Write returns: defer writer.m.Unlock()
Unlock(p) ==
    /\ status = "running"
    /\ pc[p] = "unlock"
    /\ m' = Unlocked(p)
    /\ pc' = [pc EXCEPT ![p] = "ret"]
    /\ UNCHANGED <<Level, Output, content, clock, fr, status, exitCode, calls, limit, ctor, hist>>

\* back in the caller of Write: panic(err), os.Exit(1) or a plain return
Return(p) ==
    /\ status = "running"
    /\ pc[p] = "ret"
    /\ IF Failed(fr[p])
         THEN /\ Panic(p, fr[p])
              /\ UNCHANGED <<pc, hist>>
         ELSE IF ~Gated(fr[p].meth)
           THEN /\ status' = "exited"
                /\ exitCode' = 1
                /\ fr' = [fr EXCEPT ![p].res = "exited"]
                /\ hist' = Append(hist, HistEntry(fr[p]))
                /\ UNCHANGED pc
           ELSE /\ fr' = [fr EXCEPT ![p].res = "returned"]
                /\ pc' = [pc EXCEPT ![p] = "idle"]
                /\ hist' = Append(hist, HistEntry(fr[p]))
                /\ UNCHANGED <<status, exitCode>>
    /\ UNCHANGED <<Level, Output, m, content, clock, calls, limit, ctor>>

\* SetLevel and SetOutput: writer.m.Lock()
SetterLock(p) ==
    /\ status = "running"
    /\ pc[p] = "slock"
    /\ CanLock(p)
    /\ m' = p
    /\ pc' = [pc EXCEPT ![p] = "sassign"]
    /\ UNCHANGED <<Level, Output, content, clock, fr, status, exitCode, calls, limit, ctor, hist>>

\* writer.Level = level
SetLevelAssign(p) ==
    /\ status = "running"
    /\ pc[p] = "sassign"
    /\ fr[p].op = "SetLevel"
    /\ Level' = fr[p].level
    /\ pc' = [pc EXCEPT ![p] = "sunlock"]
    /\ UNCHANGED <<Output, m, content, clock, fr, status, exitCode, calls, limit, ctor, hist>>

\* writer.Output = os.Stderr or file
SetOutputAssign(p) ==
    /\ status = "running"
    /\ pc[p] = "sassign"
    /\ fr[p].op = "SetOutput"
    /\ Output' = ResolveOutput(fr[p].file)
    /\ pc' = [pc EXCEPT ![p] = "sunlock"]
    /\ UNCHANGED <<Level, m, content, clock, fr, status, exitCode, calls, limit, ctor, hist>>

\* a setter that reports before it unlocks
SetterKeepsLock(p) ==
    /\ status = "running"
    /\ pc[p] = "sunlock"
    /\ pc' = [pc EXCEPT ![p] = "sreport"]
    /\ UNCHANGED <<Level, Output, m, content, clock, fr, status, exitCode, calls, limit, ctor, hist>>

\* writer.m.Unlock()
SetterUnlock(p) ==
    /\ status = "running"
    /\ pc[p] = "sunlock"
    /\ m' = Unlocked(p)
    /\ pc' = [pc EXCEPT ![p] = "sreport"]
    /\ UNCHANGED <<Level, Output, content, clock, fr, status, exitCode, calls, limit, ctor, hist>>

\* the frame of the method a setter calls to report what it did
Nested(f, meth, format, a) ==
    [f EXCEPT !.meth = meth, !.format = format, !.args = a,
              !.tocopy = {"Level", "Output"}, !.T0 = Level, !.O0 = Output]

\* SetLevel calls the method meth to report the new level
ReportLevel(p, meth, format, a) ==
    /\ status = "running"
    /\ pc[p] = "sreport"
    /\ fr[p].op = "SetLevel"
    /\ fr' = [fr EXCEPT ![p] = Nested(fr[p], meth, format, a)]
    /\ pc' = [pc EXCEPT ![p] = "copy"]
    /\ UNCHANGED <<Level, Output, m, content, clock, status, exitCode, calls, limit, ctor, hist>>

\* writer.Infof("log level set to %s\n", level.String())
SetLevelReport(p) == ReportLevel(p, "Infof", FormatSetLevel, <<String(fr[p].level)>>)

\* writer.Debugf("output set to %s\n", file.Name()): the operand file.Name()
\* is evaluated first, and dereferences file
SetOutputReport(p) ==
    /\ status = "running"
    /\ pc[p] = "sreport"
    /\ fr[p].op = "SetOutput"
    /\ IF fr[p].file = NIL
         THEN /\ Panic(p, fr[p])
              /\ UNCHANGED pc
         ELSE /\ fr' = [fr EXCEPT ![p] = Nested(fr[p], "Debugf", FormatSetOutput, <<Name(fr[p].file)>>)]
              /\ pc' = [pc EXCEPT ![p] = "copy"]
              /\ UNCHANGED <<status, exitCode>>
    /\ UNCHANGED <<Level, Output, m, content, clock, calls, limit, ctor, hist>>

\* the steps of a per-level method and of Write
LogStep(p) ==
    \/ CopyField(p)
    \/ Gate(p)
    \/ Lock(p)
    \/ Norm(p)
    \/ SinkWrite(p)
    \/ SinkFail(p)
    \/ Unlock(p)
    \/ Return(p)

\* the steps of SetLevel
SetLevelStep(p) ==
    \/ SetterLock(p)
    \/ SetLevelAssign(p)
    \/ SetterUnlock(p)
    \/ SetLevelReport(p)

\* the steps SetOutput adds to them
SetOutputStep(p) ==
    \/ SetOutputAssign(p)
    \/ SetOutputReport(p)

(* ------------- the revision with LogLevelNone (part_000) ---------------- *)
\* src/unnamed/part_000:273-528. Its Write, its locking in SetLevel and its
\* value receivers are the code modelled above; these are the parts that
\* differ: the levels, the message, NewWithOptions and what SetLevel reports.
LogLevelNone == 0
LogLevelInfoR3 == 2
LogLevelWarnR3 == 4
LogLevelErrorR3 == 8
LogLevelDebugR3 == 16
LogLevelTraceR3 == 32
LogLevelFatalR3 == 64

StrNone == <<"N", "o", "n", "e">>

StringR3(l) ==
    CASE l = LogLevelNone -> StrNone
      [] l = LogLevelFatalR3 -> StrFatal
      [] l = LogLevelInfoR3 -> StrInfo
      [] l = LogLevelWarnR3 -> StrWarn
      [] l = LogLevelErrorR3 -> StrError
      [] l = LogLevelDebugR3 -> StrDebug
      [] l = LogLevelTraceR3 -> StrTrace
      [] OTHER -> StrUnknown

\* for _, v := range a { message += " " + v.(string) }
RECURSIVE JoinArgs(_, _, _)
JoinArgs(message, a, k) ==
    IF k > Len(a) THEN message ELSE JoinArgs(message \o <<SP>> \o a[k], a, k + 1)

buildMessageR3(l, a, ts) ==
    IF l = LogLevelNone THEN <<>>
    ELSE LET message == JoinArgs(Sprintf(ts, <<>>) \o <<SP>> \o SubSeq(StringR3(l), 1, 1), a, 1)
         IN IF message[Len(message)] # SP THEN message \o <<SP>> ELSE message

NewR3 == [addr |-> 1, Level |-> LogLevelInfoR3, Output |-> Stderr]

\* if opts.Level == 0 { opts.Level = LogLevelInfo }
OptLevelR3(opts) == IF opts.Level = 0 THEN LogLevelInfoR3 ELSE opts.Level

NewWithOptionsR3(opts) == [addr |-> 1, Level |-> OptLevelR3(opts), Output |-> OptOutput(opts)]

CtorNewR3 == [fn |-> "New", opts |-> [Level |-> 0, Output |-> NIL], logr |-> NewR3]
CtorWithOptionsR3(opts) == [fn |-> "NewWithOptions", opts |-> opts, logr |-> NewWithOptionsR3(opts)]

PlainOpsR3 == {"Debug", "Error", "Info", "Warn", "Fatal"}
FormatOpsR3 == {"Debugf", "Errorf", "Infof", "Warnf", "Fatalf"}

MethodLevelR3(op) ==
    CASE op \in {"Debug", "Debugf"} -> LogLevelDebugR3
      [] op \in {"Error", "Errorf"} -> LogLevelErrorR3
      [] op \in {"Info", "Infof"} -> LogLevelInfoR3
      [] op \in {"Warn", "Warnf"} -> LogLevelWarnR3
      [] OTHER -> LogLevelFatalR3

EnabledR3(level, op) == level >= MethodLevelR3(op)

\* the f-methods format the timestamp, the tag and the format in one Sprintf
MethodMessageR3(op, format, a, ts) ==
    IF op \in FormatOpsR3
      THEN Sprintf(ts \o <<SP>> \o SubSeq(StringR3(MethodLevelR3(op)), 1, 1) \o <<SP>> \o format, a)
      ELSE buildMessageR3(MethodLevelR3(op), a, ts)

GateR3(p) ==
    /\ pc[p] = "gate"
    /\ GateBody(p, ~Gated(fr[p].meth) \/ EnabledR3(fr[p].wLevel, fr[p].meth),
                MethodMessageR3(fr[p].meth, fr[p].format, fr[p].args, clock))

FormatSetLevelR3 == <<"L", "o", "g", " ", "l", "e", "v", "e", "l", " ", "s", "e", "t", " ", "t", "o", " ", "%", "s">>

\* writer.Debugf("Log level set to %s", level.String())
SetLevelReportR3(p) == ReportLevel(p, "Debugf", FormatSetLevelR3, <<StringR3(fr[p].level)>>)

(* --------------------------- specifications ---------------------------- *)
AllLevels == {LogLevelFatal, LogLevelError, LogLevelWarn, LogLevelInfo,
              LogLevelVerbose, LogLevelDebug, LogLevelTrace}

MsgA == <<"a">>
MsgAB == <<"a", "\n", "b">>
FormatS == <<"x", "%", "s">>

\* NumProcs goroutines sharing the Logger, constructed at the Debug threshold
\* so that SetOutput's report is written until a SetLevel(Error) lands
Ctors == {CtorWithOptions([Level |-> LogLevelDebug, Output |-> NIL])}

Calls == {Plain("Info", <<MsgA>>), SetLevelCall(LogLevelError), SetOutputCall(Stdout)}

Init == InitWith(Ctors, {TimeUTC}, MaxConc)

Next ==
    \E p \in Procs :
        \/ \E c \in Calls : Begin(p, c)
        \/ LogStep(p)
        \/ SetLevelStep(p)
        \/ SetOutputStep(p)

Spec == Init /\ [][Next]_vars

\* goroutines that log and reconfigure under a fair schedule: the Go
\* scheduler lets every goroutine that can take a step take one, which
\* includes that a sink write returns and that a goroutine waiting at a free
\* mutex gets it
LiveCalls ==
    {Plain("Info", <<MsgA>>), SetLevelCall(LogLevelInfo), SetOutputCall(Stderr)}

LiveInit == InitWith({CtorNew}, {TimeUTC}, MaxConc)

Step(p) == LogStep(p) \/ SetLevelStep(p) \/ SetOutputStep(p)

LiveNext ==
    \E p \in Procs :
        \/ \E c \in LiveCalls : Begin(p, c)
        \/ Step(p)

Fairness == \A p \in Procs : WF_vars(Step(p))

FairSpec == LiveInit /\ [][LiveNext]_vars /\ Fairness

\* one goroutine: a sequential caller that logs and reconfigures
SeqCtors ==
    {CtorNew} \cup {CtorWithOptions([Level |-> l, Output |-> o]) :
                      l \in {LogLevelInfo, LogLevelTrace}, o \in {NIL, Stdout}}

SeqCalls ==
    {Plain("Info", <<MsgA>>), Plain("Debug", <<MsgAB>>)}
      \cup {SetLevelCall(l) : l \in AllLevels}
      \cup {SetOutputCall(o) : o \in {NIL, Stdout, TempFile}}

SeqInit == InitWith(SeqCtors, Timestamps, MaxCalls)

SeqNext ==
    \/ \E c \in SeqCalls : Begin(1, c)
    \/ LogStep(1)
    \/ SetLevelStep(1)
    \/ SetOutputStep(1)

SeqSpec == SeqInit /\ [][SeqNext]_vars

\* one goroutine that sets a threshold and calls one method
GateCalls ==
    {Plain(op, a) : op \in PlainOps, a \in {<<>>, <<MsgA>>}}
      \cup {Formatted(op, FormatS, <<MsgA>>) : op \in FormatOps}
      \cup {SetLevelCall(l) : l \in AllLevels}

GateInit == InitWith({CtorNew}, Timestamps, MaxGate)

GateNext ==
    \/ \E c \in GateCalls : Begin(1, c)
    \/ LogStep(1)
    \/ SetLevelStep(1)

GateSpec == GateInit /\ [][GateNext]_vars

\* every way of constructing the Logger, followed by one logging call
NewCtors ==
    {CtorNew} \cup {CtorWithOptions([Level |-> l, Output |-> o]) :
                      l \in AllLevels, o \in {NIL} \cup Files}

NewCalls == {Plain("Info", <<MsgA>>), Plain("Trace", <<MsgA>>)}

NewInit == InitWith(NewCtors, Timestamps, MaxApply)

NewNext ==
    \/ \E c \in NewCalls : Begin(1, c)
    \/ LogStep(1)

NewSpec == NewInit /\ [][NewNext]_vars

\* the revision with LogLevelNone: a threshold is supplied, through
\* NewWithOptions or SetLevel, and one method is called
AllLevelsR3 == {LogLevelNone, LogLevelInfoR3, LogLevelWarnR3, LogLevelErrorR3,
                LogLevelDebugR3, LogLevelTraceR3, LogLevelFatalR3}

NoneCtors ==
    {CtorNewR3} \cup {CtorWithOptionsR3([Level |-> l, Output |-> o]) :
                        l \in AllLevelsR3, o \in {NIL, Stdout}}

NoneCalls ==
    {Plain(op, <<MsgA>>) : op \in PlainOpsR3}
      \cup {Formatted(op, FormatS, <<MsgA>>) : op \in FormatOpsR3}
      \cup {SetLevelCall(l) : l \in AllLevelsR3}

NoneInit == InitWith(NoneCtors, Timestamps, MaxGate)

NoneNext ==
    \/ \E c \in NoneCalls : Begin(1, c)
    \/ CopyField(1)
    \/ GateR3(1)
    \/ Lock(1)
    \/ Norm(1)
    \/ SinkWrite(1)
    \/ SinkFail(1)
    \/ Unlock(1)
    \/ Return(1)
    \/ SetterLock(1)
    \/ SetLevelAssign(1)
    \/ SetterUnlock(1)
    \/ SetLevelReportR3(1)

NoneSpec == NoneInit /\ [][NoneNext]_vars

\* all strings over alphabet of length at most n
Strings(alphabet, n) == UNION {[1..k -> alphabet] : k \in 0..n}

\* one direct call of Write, for every short payload
WriteCalls == {RawWrite(b) : b \in Strings({"a", NL}, MaxLen)}

WriteInit == InitWith({CtorNew}, Timestamps, MaxApply)

WriteNext ==
    \/ \E c \in WriteCalls : Begin(1, c)
    \/ CopyField(1)
    \/ Lock(1)
    \/ Norm(1)
    \/ SinkWrite(1)
    \/ SinkFail(1)
    \/ Unlock(1)
    \/ Return(1)

WriteSpec == WriteInit /\ [][WriteNext]_vars

\* one plain call, for every short argument string
BuildArgs ==
    Strings({"a", NL}, MaxLen) \cup {<<SP>>, <<"a", SP>>, <<SP, "a", NL, SP>>}

\* argument lists with more than one string
BuildLists ==
    {<<MsgA, MsgA>>, <<MsgAB, MsgA>>, <<MsgA, MsgAB>>, <<MsgA, <<>>, MsgA>>,
     << <<NL, "a">>, MsgA >>, << <<>>, MsgA >>}

BuildCalls ==
    {Plain(op, <<a>>) : op \in {"Info", "Error"}, a \in BuildArgs}
      \cup {Plain("Info", <<>>)}
      \cup {Plain("Warn", a) : a \in BuildLists}

BuildInit == InitWith({CtorNew}, Timestamps, MaxApply)

BuildNext ==
    \/ \E c \in BuildCalls : Begin(1, c)
    \/ LogStep(1)

BuildSpec == BuildInit /\ [][BuildNext]_vars

\* one formatted call, at a threshold given to NewWithOptions
FmtCtors ==
    {CtorWithOptions([Level |-> l, Output |-> NIL]) :
       l \in {LogLevelError, LogLevelInfo, LogLevelTrace}}

FmtFormats ==
    {<<"%", "s">>, <<"a", NL, "%", "s">>, <<"a", NL, NL, "%", "s">>, <<NL, "%", "s">>}

FmtCalls ==
    {Formatted(op, format, a) :
       op \in FormatOps, format \in FmtFormats, a \in {<<>>, <<MsgA>>, <<MsgAB>>}}

FmtInit == InitWith(FmtCtors, Timestamps, MaxApply)

FmtNext ==
    \/ \E c \in FmtCalls : Begin(1, c)
    \/ LogStep(1)

FmtSpec == FmtInit /\ [][FmtNext]_vars

\* goroutines whose calls leave Write, SetLevel and SetOutput on every path:
\* a write that succeeds or fails, an empty message, a cleared sink, a nil
\* argument
LockCalls ==
    {Plain("Info", <<>>), Plain("Info", <<MsgA>>), RawWrite(<<>>),
     SetLevelCall(LogLevelError), SetOutputCall(NIL)}

LockInit == InitWith({CtorNew}, {TimeUTC}, MaxConc)

LockNext ==
    \E p \in Procs :
        \/ \E c \in LockCalls : Begin(p, c)
        \/ ClearOutput(p)
        \/ LogStep(p)
        \/ SetLevelStep(p)
        \/ SetOutputStep(p)

LockSpec == LockInit /\ [][LockNext]_vars

(* ------------------------------- claims -------------------------------- *)
GatedOps == LogOps \ {"Fatal", "Fatalf"}

\* the call of goroutine p is over: it returned, or it stopped the process
Finished(p) == fr[p].res # "none"

\* the call reached writer.Output.Write: bytes were handed over or it failed
Wrote(f) == f.n > 0 \/ f.err

\* C1: a finished call of a gated per-level method, made when the threshold
\* was T (f.T0), has written to the sink if and only if T >= L, L being the
\* level of the method.
C1_WritesIffEnabled ==
    \A p \in Procs :
        (fr[p].op \in GatedOps /\ Finished(p))
            => (Wrote(fr[p]) <=> fr[p].T0 >= MethodLevel(fr[p].op))

\* The part of C1 the code does keep: a call below the threshold never
\* writes, and a call at or above it with a non-empty message always does.
GatingOfNonEmpty ==
    \A p \in Procs :
        (fr[p].op \in GatedOps /\ Finished(p))
            => /\ Wrote(fr[p]) => fr[p].T0 >= MethodLevel(fr[p].op)
               /\ (fr[p].T0 >= MethodLevel(fr[p].op) /\ fr[p].message # <<>>) => Wrote(fr[p])

\* A suppressed call changes nothing of the Logger or of the files.
SuppressedChangesNothing ==
    [][\A p \in Procs :
          (pc[p] = "gate" /\ pc'[p] = "idle")
              => UNCHANGED <<Level, Output, m, content>>]_vars

\* C2: once a call of Fatal or Fatalf is over, the process has stopped with a
\* non-zero exit status, and unless the sink write returned an error the
\* whole message was handed to the sink before that.
C2_FatalWritesThenExits ==
    \A p \in Procs :
        (fr[p].op \in {"Fatal", "Fatalf"} /\ Finished(p))
            => /\ status # "running"
               /\ exitCode # 0
               /\ fr[p].err \/ fr[p].sunk

\* The part of C2 the code does keep: Fatal and Fatalf stop the process with
\* a non-zero status whatever the threshold, after the write when there is a
\* message to write.
FatalAlwaysExits ==
    \A p \in Procs :
        (fr[p].op \in {"Fatal", "Fatalf"} /\ Finished(p))
            => /\ status # "running"
               /\ exitCode # 0
               /\ fr[p].message # <<>> => (fr[p].err \/ fr[p].sunk)

\* s ends with t
EndsWith(s, t) == Len(s) >= Len(t) /\ SubSeq(s, Len(s) - Len(t) + 1, Len(s)) = t

\* the goroutines inside Write between Lock and Unlock
InWrite == {p \in Procs : pc[p] \in {"norm", "sink", "unlock"}}

\* C3: at most one goroutine is inside the sink write, it holds the lock, and
\* what it has handed to the file so far is the end of that file, with no
\* bytes of another call in between; when it leaves, the whole payload is
\* there in one piece.
C3_NoInterleaving ==
    /\ Cardinality(InWrite) <= 1
    /\ \A p \in InWrite :
         /\ m = p
         /\ pc[p] = "sink" => EndsWith(content[SinkOf(fr[p])], SubSeq(fr[p].bytes, 1, fr[p].n))
         /\ (pc[p] = "unlock" /\ ~fr[p].err)
              => EndsWith(content[SinkOf(fr[p])], fr[p].bytes)

\* one goroutine is half way through its sink write while another, bound
\* for the same file, waits in Lock
C3_Witness ==
    \E p, q \in Procs :
        /\ p # q
        /\ pc[p] = "sink" /\ fr[p].n > 0
        /\ pc[q] = "lock" /\ fr[q].wOutput = fr[p].wOutput

\* the sink in force after the first k calls of hist, by the claim: the one
\* given at construction until a SetOutput names another
RECURSIVE SinkAfter(_)
SinkAfter(k) ==
    IF k = 0 THEN ctor.logr.Output
    ELSE IF hist[k].op = "SetOutput" THEN hist[k].file
    ELSE SinkAfter(k - 1)

\* where the claim puts what call k of hist wrote: a logging call writes to
\* the sink in force when it starts, SetOutput reports to the sink it set
ExpectedSink(k) == IF hist[k].op = "SetOutput" THEN hist[k].file ELSE SinkAfter(k - 1)

\* the bytes the claim puts in file f after the first k calls of hist
RECURSIVE ExpectedContent(_, _)
ExpectedContent(f, k) ==
    IF k = 0 THEN <<>>
    ELSE ExpectedContent(f, k - 1)
           \o (IF hist[k].wrote /\ ExpectedSink(k) = f THEN hist[k].bytes ELSE <<>>)

\* C4: between the calls of a sequential caller every file holds exactly the
\* messages of the calls that ran while it was the sink, each once and in
\* order: those before a SetOutput in the old sink, those after it in the
\* new one, nothing twice and nothing missing.
C4_OutputSwitch ==
    (status = "running" /\ \A p \in Procs : pc[p] = "idle")
        => \A f \in Files : content[f] = ExpectedContent(f, Len(hist))

\* a message in the old sink, a SetOutput to another file, a message there
C4_Witness ==
    /\ status = "running" /\ \A p \in Procs : pc[p] = "idle"
    /\ Len(hist) = 3
    /\ hist[1].op \in LogOps /\ hist[1].wrote
    /\ hist[2].op = "SetOutput" /\ hist[2].file # ctor.logr.Output
    /\ hist[3].op \in LogOps /\ hist[3].wrote
    /\ EndsWith(content[ctor.logr.Output], hist[1].bytes)
    /\ EndsWith(content[hist[2].file], hist[3].bytes)

\* C5: a finished SetOutput(nil) has returned normally and has left the
\* standard error stream as the sink.
C5_NilResetsToStderr ==
    \A p \in Procs :
        (fr[p].op = "SetOutput" /\ fr[p].file = NIL /\ Finished(p))
            => fr[p].res = "returned" /\ Output = Stderr

\* C6: as long as no setter has run, the Logger NewWithOptions(o) made has
\* the threshold o.Level, or Info when that is zero, and the sink o.Output,
\* or standard error when that is nil; for the zero Options both are what
\* New() gives, Info and standard error.
C6_ConstructorDefaults ==
    /\ ctor.logr.addr # 0
    /\ ctor.fn = "NewWithOptions"
         => /\ Level = (IF ctor.opts.Level # 0 THEN ctor.opts.Level ELSE LogLevelInfo)
            /\ Output = (IF ctor.opts.Output # NIL THEN ctor.opts.Output ELSE Stderr)
    /\ ctor.opts = [Level |-> 0, Output |-> NIL]
         => /\ Level = New.Level /\ Output = New.Output
            /\ Level = LogLevelInfo /\ Output = Stderr

\* NewWithOptions(Options{}) was called and a message went to standard error
C6_Witness ==
    /\ ctor.fn = "NewWithOptions"
    /\ ctor.opts = [Level |-> 0, Output |-> NIL]
    /\ Level = LogLevelInfo /\ Output = Stderr
    /\ content[Stderr] # <<>>

\* C7: when a sequential caller is back from SetLevel(L) the threshold is L
\* and the sink is the one from before the call; when it is back from
\* SetOutput(f), f not nil, the sink is f and the threshold is the one from
\* before the call.
C7_SettersFrame ==
    \A p \in Procs :
        (pc[p] = "idle" /\ fr[p].res = "returned")
            => /\ fr[p].op = "SetLevel" => (Level = fr[p].level /\ Output = fr[p].F0)
               /\ (fr[p].op = "SetOutput" /\ fr[p].file # NIL)
                    => (Output = fr[p].file /\ Level = fr[p].L0)

\* the caller is back from a SetOutput that changed the sink, after a
\* SetLevel that changed the threshold
C7_Witness ==
    \E p \in Procs :
        /\ pc[p] = "idle" /\ fr[p].res = "returned"
        /\ fr[p].op = "SetOutput" /\ fr[p].file # fr[p].F0 /\ Output = fr[p].file
        /\ \E k \in 1..Len(hist) :
             hist[k].op = "SetLevel" /\ hist[k].level = Level /\ Level # ctor.logr.Level

\* the threshold the caller has supplied after the first k calls of hist:
\* the level of the last SetLevel, else the level in the Options
RECURSIVE SuppliedLevel(_)
SuppliedLevel(k) ==
    IF k = 0 THEN (IF ctor.fn = "NewWithOptions" THEN ctor.opts.Level ELSE ctor.logr.Level)
    ELSE IF hist[k].op = "SetLevel" THEN hist[k].level
    ELSE SuppliedLevel(k - 1)

\* the calls of hist that ended before the call in frame f began
Before(f) == Cardinality({k \in 1..Len(hist) : hist[k].id < f.id})

\* C8: a finished call of a non-Fatal method, made after the caller supplied
\* LogLevelNone as the threshold through NewWithOptions or SetLevel, has
\* written nothing.
C8_NoneIsSilent ==
    \A p \in Procs :
        (/\ fr[p].op \in GatedOps /\ Finished(p)
         /\ SuppliedLevel(Before(fr[p])) = LogLevelNone)
            => ~Wrote(fr[p])

\* The part of C8 the code does keep: LogLevelNone set through SetLevel
\* silences every non-Fatal method.
SetLevelNoneIsSilent ==
    \A p \in Procs :
        (/\ fr[p].op \in GatedOps /\ Finished(p)
         /\ \E k \in 1..Len(hist) :
              hist[k].op = "SetLevel" /\ hist[k].level = LogLevelNone /\ hist[k].id < fr[p].id
         /\ SuppliedLevel(Before(fr[p])) = LogLevelNone)
            => ~Wrote(fr[p])

\* C9: the bytes a direct Write of a non-empty payload hands to the sink are
\* the payload itself when it ends in a newline and the payload plus one
\* newline when it does not, and normalizing them again changes nothing.
C9_NewlineNormalized ==
    \A p \in Procs :
        (fr[p].op = "Write" /\ fr[p].sunk)
            => LET b == fr[p].args[1]
                   handed == IF b[Len(b)] = NL THEN b ELSE b \o <<NL>>
               IN /\ b # <<>>
                  /\ fr[p].bytes = handed
                  /\ EndsWith(content[fr[p].wOutput], handed)
                  /\ Normalize(fr[p].bytes) = fr[p].bytes
                  /\ Normalize(Normalize(b)) = Normalize(b)

\* a payload without a trailing newline has reached the sink
C9_Witness ==
    \E p \in Procs :
        /\ fr[p].op = "Write" /\ fr[p].sunk
        /\ fr[p].args[1][Len(fr[p].args[1])] # NL
        /\ content[fr[p].wOutput] = fr[p].args[1] \o <<NL>>

\* the message C10 describes for the string s and the prefix P, read off s
\* one character at a time: P before the first character, Len(P) spaces
\* before the first character of a later line, one newline after the last
\* character of every non-empty line
RECURSIVE AlignedFrom(_, _, _)
AlignedFrom(P, s, i) ==
    IF i > Len(s) THEN <<>>
    ELSE IF s[i] = NL THEN AlignedFrom(P, s, i + 1)
    ELSE (IF i = 1 THEN P ELSE IF s[i - 1] = NL THEN Spaces(Len(P)) ELSE <<>>)
           \o <<s[i]>>
           \o (IF i = Len(s) \/ s[i + 1] = NL THEN <<NL>> ELSE <<>>)
           \o AlignedFrom(P, s, i + 1)

\* the number of non-empty lines of s: the characters that start one
LineStarts(s) == {i \in 1..Len(s) : s[i] # NL /\ (i = 1 \/ s[i - 1] = NL)}

Newlines(s) == {i \in 1..Len(s) : s[i] = NL}

\* C10: for a plain call with one string whose first line is not empty, the
\* message built, and written, is the prefix and the first line, then every
\* later non-empty line behind as many spaces as the prefix is long, each
\* followed by a newline; it has as many lines as the string has non-empty
\* ones.
C10_AlignedLines ==
    \A p \in Procs :
        (/\ fr[p].op \in PlainOps /\ fr[p].passed
         /\ Len(fr[p].args) = 1
         /\ fr[p].args[1] # <<>> /\ fr[p].args[1][1] # NL)
            => LET P == Prefix(MethodLevel(fr[p].op), clock)
                   s == fr[p].args[1]
               IN /\ fr[p].message = AlignedFrom(P, s, 1)
                  /\ Cardinality(Newlines(fr[p].message)) = Cardinality(LineStarts(s))
                  /\ fr[p].sunk => EndsWith(content[fr[p].wOutput], AlignedFrom(P, s, 1))

\* "a\n\na" has been written: two lines, the empty one dropped
C10_Witness ==
    \E p \in Procs :
        /\ fr[p].op = "Info" /\ fr[p].sunk
        /\ fr[p].args = << <<"a", NL, NL, "a">> >>
        /\ Cardinality(Newlines(content[fr[p].wOutput])) = 2

\* the arguments of a call as one text, one argument to a line
RECURSIVE JoinLines(_, _)
JoinLines(a, k) ==
    IF k > Len(a) THEN <<>>
    ELSE a[k] \o (IF k < Len(a) THEN <<NL>> ELSE <<>>) \o JoinLines(a, k + 1)

\* the message C11 describes for the text s and the prefix P: P before the
\* first non-empty line, Len(P) spaces before every later one (emitted says
\* whether a line has been emitted already)
RECURSIVE OneHeaderFrom(_, _, _, _)
OneHeaderFrom(P, s, i, emitted) ==
    IF i > Len(s) THEN <<>>
    ELSE IF s[i] = NL THEN OneHeaderFrom(P, s, i + 1, emitted)
    ELSE (IF i = 1 \/ s[i - 1] = NL
            THEN (IF emitted THEN Spaces(Len(P)) ELSE P)
            ELSE <<>>)
           \o <<s[i]>>
           \o (IF i = Len(s) \/ s[i + 1] = NL THEN <<NL>> ELSE <<>>)
           \o OneHeaderFrom(P, s, i + 1, TRUE)

\* the lines of a message, without their newlines
Lines(msg) == SelectSeq(Split(msg), LAMBDA l : l # <<>>)

\* line l starts with t
StartsWith(l, t) == Len(l) >= Len(t) /\ SubSeq(l, 1, Len(t)) = t

\* C11: the message a plain call builds from any list of strings has its
\* prefix on the first emitted line and on no other: every later line, of
\* the first argument or of a later one, starts with as many spaces as the
\* prefix is long, and the lines are in the order of the arguments.
C11_OnePrefix ==
    \A p \in Procs :
        (fr[p].op \in PlainOps /\ fr[p].passed)
            => LET P == Prefix(MethodLevel(fr[p].op), clock)
                   msg == fr[p].message
               IN /\ msg = OneHeaderFrom(P, JoinLines(fr[p].args, 1), 1, FALSE)
                  /\ \A k \in 1..Len(Lines(msg)) :
                       StartsWith(Lines(msg)[k], IF k = 1 THEN P ELSE Spaces(Len(P)))

\* What the code does instead: every argument is rendered on its own, so
\* the first line of each argument carries the prefix when it is not empty.
RECURSIVE PrefixPerArgument(_, _, _)
PrefixPerArgument(P, a, k) ==
    IF k > Len(a) THEN <<>> ELSE AlignedFrom(P, a[k], 1) \o PrefixPerArgument(P, a, k + 1)

MessageIsPerArgument ==
    \A p \in Procs :
        (fr[p].op \in PlainOps /\ fr[p].passed)
            => fr[p].message =
                 PrefixPerArgument(Prefix(MethodLevel(fr[p].op), clock), fr[p].args, 1)

\* the goroutines whose per-level method has called writer.Output.Write
Attempting == {p \in Procs : fr[p].meth \in LogOps /\ pc[p] = "sink"}

\* C12: a per-level call that emits hands its bytes to the sink in one write
\* attempt: the attempt starts once, from Write, on a frame that has written
\* nothing yet; when it is over the call never goes back to the sink; only
\* the file of an attempt in progress changes, by bytes of that attempt. A
\* call whose attempt returned an error never returns: it stops the process
\* with a non-zero status.
C12_OneAttemptNoSwallow ==
    /\ [](\A p \in Procs :
            (fr[p].meth \in LogOps /\ fr[p].err)
                => /\ pc[p] \in {"unlock", "ret"}
                   /\ fr[p].res # "returned"
                   /\ Finished(p) => (fr[p].res = "panicked" /\ status = "panicked" /\ exitCode # 0))
    /\ [](\A p \in Procs :
            (fr[p].meth \in LogOps /\ fr[p].res = "returned" /\ fr[p].passed)
                => (fr[p].sunk /\ fr[p].n = Len(fr[p].bytes)))
    /\ [][\A p \in Procs :
            /\ (pc'[p] = "sink" /\ pc[p] # "sink")
                 => (pc[p] = "norm" /\ fr[p].n = 0 /\ ~fr[p].err /\ ~fr[p].sunk)
            /\ pc[p] = "sink" => pc'[p] \in {"sink", "unlock"}
            /\ (pc[p] \in {"unlock", "ret"} /\ fr[p].meth \in LogOps)
                 => pc'[p] \in {"unlock", "ret", "idle"}]_vars
    /\ [][\A f \in Files :
            content'[f] # content[f]
                => \E p \in Attempting :
                     /\ f = fr[p].wOutput
                     /\ content'[f] = content[f] \o SubSeq(fr[p].bytes, fr[p].n + 1, fr'[p].n)]_vars

\* a sink write that had taken one byte returned an error, and the process
\* has stopped
C12_Witness ==
    \E p \in Procs :
        /\ fr[p].meth \in LogOps /\ fr[p].err /\ fr[p].n = 1
        /\ fr[p].res = "panicked" /\ status = "panicked" /\ exitCode = 2

\* the plain method of the level of a formatted one
PlainOf(op) ==
    CASE op = "Tracef" -> "Trace"
      [] op = "Debugf" -> "Debug"
      [] op = "Verbosef" -> "Verbose"
      [] op = "Infof" -> "Info"
      [] op = "Warnf" -> "Warn"
      [] op = "Errorf" -> "Error"
      [] OTHER -> "Fatal"

\* a formatted call got past the threshold exactly when the plain method of
\* its level would
SameGating(f) ==
    f.passed <=> (~Gated(PlainOf(f.op)) \/ f.T0 >= MethodLevel(PlainOf(f.op)))

\* C13 as stated: a formatted call is gated as the plain method of its level
\* is, and what it hands to the sink is the prefix and then the substituted
\* body as it is, embedded newlines and empty lines included, with no
\* indentation added.
C13_FormattedNotSplit ==
    \A p \in Procs :
        (fr[p].op \in FormatOps /\ (fr[p].passed \/ Finished(p)))
            => /\ SameGating(fr[p])
               /\ fr[p].bytes # <<>>
                    => fr[p].bytes =
                         Normalize(Prefix(MethodLevel(fr[p].op), clock)
                                     \o Sprintf(fr[p].format, fr[p].args))

\* C13 as the code has it: a formatted call is gated as the plain method of
\* its level is, and its message is the one the plain method builds for the
\* substituted body as its one argument: the prefix before the first line,
\* every later non-empty line behind as many spaces as the prefix is long,
\* empty lines dropped.
C13_FormattedIsSplit ==
    \A p \in Procs :
        (fr[p].op \in FormatOps /\ (fr[p].passed \/ Finished(p)))
            => /\ SameGating(fr[p])
               /\ fr[p].passed
                    => LET P == Prefix(MethodLevel(fr[p].op), clock)
                           body == Sprintf(fr[p].format, fr[p].args)
                       IN /\ fr[p].message = AlignedFrom(P, body, 1)
                          /\ fr[p].message = buildMessage(MethodLevel(PlainOf(fr[p].op)), <<body>>, clock)
                          /\ Cardinality(Newlines(fr[p].message)) = Cardinality(LineStarts(body))
                          /\ fr[p].sunk => EndsWith(content[fr[p].wOutput], AlignedFrom(P, body, 1))

\* Infof("a\n\n%s", "a\nb") has been written: three lines, the empty one
\* dropped, the second and third indented
C13_Witness ==
    \E p \in Procs :
        /\ fr[p].op = "Infof" /\ fr[p].sunk
        /\ fr[p].format = <<"a", NL, NL, "%", "s">> /\ fr[p].args = <<MsgAB>>
        /\ LET P == Prefix(LogLevelInfo, clock)
           IN content[fr[p].wOutput] =
                P \o <<"a", NL>> \o Spaces(Len(P)) \o <<"a", NL>> \o Spaces(Len(P)) \o <<"b", NL>>

\* where a goroutine is between a Lock and the Unlock that follows it
Locked == {"norm", "sink", "unlock", "sassign", "sunlock"}

\* C14: the mutex is held only by a goroutine that is inside Write, SetLevel
\* or SetOutput between Lock and Unlock and whose call has neither returned
\* nor aborted; so a call that is over, however it ended, holds nothing, and
\* when no call is in progress the mutex is free.
C14_LockReleased ==
    /\ \A p \in Procs : m = p => (pc[p] \in Locked /\ ~Finished(p))
    /\ \A p \in Procs : (pc[p] = "idle" \/ Finished(p)) => m # p
    /\ (\A p \in Procs : pc[p] = "idle" \/ Finished(p)) => m = 0

\* a Write that had taken the lock was aborted by the empty message, and the
\* lock is free
C14_Witness ==
    \E p \in Procs :
        /\ pc[p] = "norm" /\ fr[p].res = "panicked"
        /\ m = 0

\* a Write aborted before Lock because the sink was unset
C14_WitnessUnset ==
    \E p \in Procs :
        /\ pc[p] = "lock" /\ fr[p].res = "panicked" /\ fr[p].wOutput = NIL
        /\ m = 0

\* goroutine p is about to read Logger.Output: the copy its value receiver
\* makes has not taken that field yet
ReadsOutput(p) == pc[p] = "copy" /\ "Output" \in fr[p].tocopy

\* goroutine q is about to assign Logger.Output in SetOutput
AssignsOutput(q) == pc[q] = "sassign" /\ fr[q].op = "SetOutput"

\* C15: the accesses to the sink-handle field are ordered by the lock: no
\* logging call is reading the field while SetOutput is assigning it; and
\* the handle a Write in progress sends its bytes to is the one it found
\* set.
C15_SinkHandleUnderLock ==
    /\ \A q \in Procs : AssignsOutput(q) => m = q
    /\ \A p, q \in Procs : (p # q /\ AssignsOutput(q)) => ~ReadsOutput(p)
    /\ \A p \in InWrite : SinkOf(fr[p]) = fr[p].wOutput /\ fr[p].wOutput # NIL

\* What the code does keep of C15: SetOutput assigns under the lock, and a
\* Write works on the handle of its receiver copy from the unset-check to
\* the sink write, whatever SetOutput does meanwhile.
OneHandlePerWrite ==
    /\ [](\A q \in Procs : AssignsOutput(q) => m = q)
    /\ [](\A p \in InWrite : SinkOf(fr[p]) = fr[p].wOutput /\ fr[p].wOutput # NIL)
    /\ [][\A p \in Procs :
            (pc[p] \in {"lock", "norm", "sink"} /\ pc'[p] # "idle")
                => fr'[p].wOutput = fr[p].wOutput]_vars

\* no call is in progress: every goroutine is between calls, or the process
\* has stopped
Quiet == status # "running" \/ \A p \in Procs : pc[p] = "idle"

\* C16: under the fair schedule the process is again and again in a state
\* where no call is in progress, so that every call a goroutine has begun
\* comes to its end, by returning or by the process stopping, and no
\* goroutine waits for the lock for ever; and nobody waits for a lock it
\* holds itself.
C16_CallsTerminate ==
    /\ [](\A p \in Procs : pc[p] \in {"lock", "slock"} => m # p)
    /\ []<>Quiet

\* the report of a setter waits for the lock while another goroutine is in
\* its sink write
C16_Witness ==
    \E p, q \in Procs :
        /\ p # q
        /\ pc[p] = "lock" /\ fr[p].op \in Setters /\ m = q
        /\ pc[q] = "sink"

\* C17: a finished call of an enabled plain method on a Logger whose sink is
\* set and accepts the write has returned normally, whatever its arguments,
\* also when they hold no non-empty line.
C17_EmptyMessageReturns ==
    \A p \in Procs :
        (/\ fr[p].op \in PlainOps /\ Gated(fr[p].op)
         /\ fr[p].passed /\ fr[p].wOutput # NIL /\ ~fr[p].err
         /\ Finished(p))
            => fr[p].res = "returned"

\* What the code does keep of C17: the call returns whenever its message has
\* a non-empty line.
NonEmptyMessageReturns ==
    \A p \in Procs :
        (/\ fr[p].op \in PlainOps /\ Gated(fr[p].op)
         /\ fr[p].passed /\ fr[p].wOutput # NIL /\ ~fr[p].err
         /\ Finished(p) /\ fr[p].message # <<>>)
            => fr[p].res = "returned"

TypeOK ==
    /\ Output \in Files \cup {NIL}
    /\ m \in {0} \cup Procs
    /\ status \in {"running", "panicked", "exited"}

====
